---- MODULE Spec2Model ----
(***************************************************************************)
(* Hero-pool analysis and ban classification of src/main.py:               *)
(* get_top_heroes, calculate_hero_pool_metrics, determine_bans,            *)
(* get_common_hero_players and compile_ban_recommendations.                *)
(*                                                                         *)
(* Python floats are modelled as exact rationals [num, den]; every         *)
(* comparison against a threshold is a cross-multiplication.  A rendered   *)
(* ban line (an f-string in the source) is modelled as a record of the     *)
(* fields the f-string prints, with the numbers as formatted: a winrate    *)
(* printed with :.2f is the integer number of hundredths of a percent, a   *)
(* dominance printed with :.1f the integer number of tenths of a percent.  *)
(* The hero is carried in the line by name (constants.HERO_EMOJI_MAP only  *)
(* decorates it).                                                          *)
(***************************************************************************)
EXTENDS Integers, Sequences, FiniteSets, TLC

VARIABLES
    players_data,       \* the batch: dict player name -> PlayerInfoResponse | None, in dict order
    pc,                 \* position of determine_bans: "loop" or "done"
    idx,                \* index of the next item of players_data.items()
    hero_usage,         \* Counter: hero name -> number of qualifying records
    one_tricks,         \* dict hero name -> list of one-trick evidence
    good_players,       \* dict hero name -> list of (player, matches, winrate)
    player_top_heroes,  \* dict player -> top heroes, in insertion order
    player_metrics,     \* dict player -> metrics, in insertion order
    bans,               \* the list determine_bans returns
    returned,           \* the earlier calls of determine_bans: batch, candidates, list returned
    pending,            \* the batches determine_bans is still to be called with
    calls,              \* two invocations in progress: batch, position, returned list
    frames,             \* the local dictionaries of each invocation's frame
    pool_pc,            \* get_top_heroes then calculate_hero_pool_metrics: what runs next
    pool_input,         \* the player_data get_top_heroes is called with
    pool_n,             \* ... and its top_n argument
    pool_top,           \* the list get_top_heroes returned
    pool_metrics,       \* the dict calculate_hero_pool_metrics returned
    levels,             \* the rank levels get_player_rank is called with, one per player
    ranks,              \* what get_player_rank returned for them so far
    msg_pc,             \* on_message: the statement of the try block to run next
    ban_lines,          \* the list determine_bans returns at line 142
    embed,              \* the embed built so far
    processing_msg,     \* the "Processing image..." message of line 34
    channel             \* what the handler sent to the channel after it

coreVars == <<players_data, pc, idx, hero_usage, one_tricks, good_players,
              player_top_heroes, player_metrics, bans>>

repeatVars == <<returned, pending>>

callVars == <<calls, frames>>

poolVars == <<pool_pc, pool_input, pool_n, pool_top, pool_metrics>>

rankVars == <<levels, ranks>>

msgVars == <<msg_pc, ban_lines, embed, processing_msg, channel>>

auxVars == <<repeatVars, callVars, poolVars, rankVars, msgVars>>

vars == <<coreVars, auxVars>>

----------------------------------------------------------------------------
(* Configuration constants of src/main.py *)

COMMON_WINRATE_THRESHOLD == 55
COMMON_MATCH_THRESHOLD == 20
GOOD_PLAYER_WINRATE_THRESHOLD == 60
GOOD_PLAYER_MATCH_THRESHOLD == 30
ONE_TRICK_MINIMUM_MATCHES == 50
PRIMARY_HERO_THRESHOLD == [num |-> 2, den |-> 5]                \* 0.4
PLAY_RATE_DECAY_THRESHOLD == [num |-> 2, den |-> 1]             \* 2.0
HERO_POOL_CONCENTRATION_THRESHOLD == [num |-> 1, den |-> 4]     \* 0.25
top_n == 5

----------------------------------------------------------------------------
(* Exact rationals standing for the floats of the source.  den = 0 with    *)
(* num > 0 is float('inf').                                                *)

Rat(n, d) == [num |-> n, den |-> d]

RECURSIVE Gcd(_, _)
Gcd(a, b) == IF b = 0 THEN a ELSE Gcd(b, a % b)

Norm(r) ==
    IF r.den = 0 THEN Rat(1, 0)
    ELSE LET g == Gcd(r.num, r.den) IN
         IF g = 0 THEN Rat(0, 1) ELSE Rat(r.num \div g, r.den \div g)

RAdd(a, b) ==
    IF a.den = b.den THEN Rat(a.num + b.num, a.den)
    ELSE Norm(Rat(a.num * b.den + b.num * a.den, a.den * b.den))

\* variant of RMul: the first factor alone
RMulFirst(a, b) == a

RMul(a, b) == Rat(a.num * b.num, a.den * b.den)

RDiv(a, b) == Rat(a.num * b.den, a.den * b.num)

ROneMinus(a) == Rat(a.den - a.num, a.den)

\* a > b, with a possibly infinite and b finite
RGt(a, b) == IF a.den = 0 THEN TRUE ELSE a.num * b.den > b.num * a.den

\* a >= n for an integer n
RGeInt(a, n) == a.num >= n * a.den

\* round(x * scale), ties to even: what ':.2f' (scale 100) and ':.1f' after
\* '*100' (scale 1000) print, as an integer number of units
RoundScaled(r, scale) ==
    LET n == r.num * scale
        q == n \div r.den
        rem2 == 2 * (n % r.den)
    IN  IF rem2 < r.den THEN q
        ELSE IF rem2 > r.den THEN q + 1
        ELSE IF q % 2 = 0 THEN q ELSE q + 1

Format2f(winrate) == RoundScaled(winrate, 100)

FormatDominance(dominance) == RoundScaled(dominance, 1000)

----------------------------------------------------------------------------
(* Input data (src/models.py).  A dict is a sequence of its items in dict  *)
(* order.  RankedStats is [present, matches, wins]; present = FALSE is     *)
(* HeroStats.ranked = None.  PlayerInfoResponse is [present, hero_stats];  *)
(* present = FALSE is a player mapped to None.  hero_stats = None and      *)
(* hero_stats = {} are both the empty sequence ('if not hero_stats').      *)

NoRanked == [present |-> FALSE, matches |-> 0, wins |-> 0]

Ranked(m, w) == [present |-> TRUE, matches |-> m, wins |-> w]

HeroStats(name, ranked) == [hero_name |-> name, ranked |-> ranked]

PlayerInfoResponse(stats) == [present |-> TRUE, hero_stats |-> stats]

NoPlayerData == [present |-> FALSE, hero_stats |-> <<>>]

----------------------------------------------------------------------------
(* get_top_heroes *)

\* variant of RankedHero: a hero with ranked data and no match is kept, winrate 0
RankedHeroKeepZero(hero_info) ==
    LET ranked_data == hero_info.ranked IN
    IF ~ranked_data.present THEN <<>>
    ELSE << [hero_name |-> hero_info.hero_name,
             matches |-> ranked_data.matches,
             winrate |-> IF ranked_data.matches > 0
                         THEN Rat(ranked_data.wins * 100, ranked_data.matches)
                         ELSE Rat(0, 1)] >>

\* variant of RankedHero: neither the division nor the append is guarded
RankedHeroUnguarded(hero_info) ==
    LET ranked_data == hero_info.ranked IN
    IF ~ranked_data.present THEN <<>>
    ELSE << [hero_name |-> hero_info.hero_name,
             matches |-> ranked_data.matches,
             winrate |-> Rat(ranked_data.wins * 100, ranked_data.matches)] >>

\* lines 144-156: the record appended for one hero_info, if any
RankedHero(hero_info) ==
    LET ranked_data == hero_info.ranked IN
    IF ~ranked_data.present THEN <<>>
    ELSE IF ranked_data.matches > 0
         THEN << [hero_name |-> hero_info.hero_name,
                  matches |-> ranked_data.matches,
                  winrate |-> Rat(ranked_data.wins * 100, ranked_data.matches)] >>
         ELSE <<>>

RECURSIVE RankedHeroes(_)
RankedHeroes(hero_stats) ==
    IF hero_stats = <<>> THEN <<>>
    ELSE RankedHero(Head(hero_stats)) \o RankedHeroes(Tail(hero_stats))

\* list.sort(key=itemgetter("matches"), reverse=True) is stable: a record goes
\* behind every record with at least as many matches that came before it
RECURSIVE InsertByMatchesBeforeTies(_, _)
\* variant of InsertByMatches: a record goes before the records with as many matches
InsertByMatchesBeforeTies(sorted, hero) ==
    IF sorted = <<>> THEN <<hero>>
    ELSE IF Head(sorted).matches > hero.matches
         THEN <<Head(sorted)>> \o InsertByMatchesBeforeTies(Tail(sorted), hero)
         ELSE <<hero>> \o sorted

RECURSIVE InsertByMatches(_, _)
InsertByMatches(sorted, hero) ==
    IF sorted = <<>> THEN <<hero>>
    ELSE IF Head(sorted).matches >= hero.matches
         THEN <<Head(sorted)>> \o InsertByMatches(Tail(sorted), hero)
         ELSE <<hero>> \o sorted

RECURSIVE SortByMatchesDesc(_)
SortByMatchesDesc(heroes) ==
    IF heroes = <<>> THEN <<>>
    ELSE InsertByMatches(SortByMatchesDesc(SubSeq(heroes, 1, Len(heroes) - 1)),
                         heroes[Len(heroes)])

FirstN(s, n) == SubSeq(s, 1, IF Len(s) < n THEN Len(s) ELSE n)

\* get_top_heroes(player_data, n): lines 129-160 with top_n = n
TopHeroes(player_data, n) ==
    IF player_data.hero_stats = <<>> THEN <<>>
    ELSE FirstN(SortByMatchesDesc(RankedHeroes(player_data.hero_stats)), n)

\* get_top_heroes(player_data): top_n takes its default
get_top_heroes(player_data) == TopHeroes(player_data, top_n)

----------------------------------------------------------------------------
(* calculate_hero_pool_metrics *)

RECURSIVE SumMatches(_)
SumMatches(top_heroes) ==
    IF top_heroes = <<>> THEN 0
    ELSE Head(top_heroes).matches + SumMatches(Tail(top_heroes))

RECURSIVE RSum(_)
RSum(rates) ==
    IF rates = <<>> THEN Rat(0, 1)
    ELSE IF Len(rates) = 1 THEN rates[1]
    ELSE RAdd(rates[1], RSum(Tail(rates)))

Infinity == Rat(1, 0)

ZeroMetrics ==
    [diversity_score |-> Rat(0, 1),
     primary_hero_dominance |-> Rat(0, 1),
     is_one_trick |-> FALSE,
     total_matches |-> 0]

\* variant of IsOneTrick: the decay compared with >= instead of >
IsOneTrickDecayGe(total_matches, primary_hero_dominance, play_rate_decay, hhi) ==
    /\ total_matches >= ONE_TRICK_MINIMUM_MATCHES
    /\ RGt(primary_hero_dominance, PRIMARY_HERO_THRESHOLD)
    /\ ~RGt(PLAY_RATE_DECAY_THRESHOLD, play_rate_decay)
    /\ RGt(hhi, HERO_POOL_CONCENTRATION_THRESHOLD)

\* lines 389-394
IsOneTrick(total_matches, primary_hero_dominance, play_rate_decay, hhi) ==
    /\ total_matches >= ONE_TRICK_MINIMUM_MATCHES
    /\ RGt(primary_hero_dominance, PRIMARY_HERO_THRESHOLD)
    /\ RGt(play_rate_decay, PLAY_RATE_DECAY_THRESHOLD)
    /\ RGt(hhi, HERO_POOL_CONCENTRATION_THRESHOLD)

calculate_hero_pool_metrics(top_heroes) ==
    IF top_heroes = <<>> THEN ZeroMetrics
    ELSE LET total_matches == SumMatches(top_heroes) IN
         IF total_matches = 0 THEN ZeroMetrics
         ELSE LET play_rates == [i \in 1..Len(top_heroes) |->
                                    Rat(top_heroes[i].matches, total_matches)]
                  hhi == RSum([i \in 1..Len(play_rates) |->
                                    RMul(play_rates[i], play_rates[i])])
                  primary_hero_dominance == play_rates[1]
                  play_rate_decay ==
                      IF Len(play_rates) > 1
                      THEN RDiv(play_rates[1], play_rates[2])
                      ELSE Infinity
              IN  [diversity_score |-> ROneMinus(hhi),
                   primary_hero_dominance |-> primary_hero_dominance,
                   play_rate_decay |-> play_rate_decay,
                   is_one_trick |-> IsOneTrick(total_matches, primary_hero_dominance,
                                               play_rate_decay, hhi),
                   total_matches |-> total_matches]

----------------------------------------------------------------------------
(* determine_bans: the tracking dictionaries and one iteration of the loop *)
(* over players_data.items().  A dict keyed by hero name is a function on   *)
(* HeroNames whose value <<>> (or 0 for the Counter) is an absent key; a    *)
(* dict keyed by player is the sequence of its items in insertion order.   *)

HeroNames == {"X", "Y", "Z", "W", "V", "U"}

EmptyAcc ==
    [hero_usage |-> [h \in HeroNames |-> 0],
     one_tricks |-> [h \in HeroNames |-> <<>>],
     good_players |-> [h \in HeroNames |-> <<>>],
     player_top_heroes |-> <<>>,
     player_metrics |-> <<>>]

\* line 210
MeetsCommon(hero) ==
    RGeInt(hero.winrate, COMMON_WINRATE_THRESHOLD) /\ hero.matches >= COMMON_MATCH_THRESHOLD

\* variant of MeetsGoodPlayer: the winrate alone decides
MeetsGoodPlayerWinrateOnly(hero) ==
    RGeInt(hero.winrate, GOOD_PLAYER_WINRATE_THRESHOLD)

\* line 213
MeetsGoodPlayer(hero) ==
    RGeInt(hero.winrate, GOOD_PLAYER_WINRATE_THRESHOLD)
        /\ hero.matches >= GOOD_PLAYER_MATCH_THRESHOLD

\* variant of TagOneTrick: the evidence list of the hero is replaced, not extended
TagOneTrickOverwrite(tricks, player_name, top_heroes, metrics) ==
    IF metrics.is_one_trick
    THEN LET primary_hero == top_heroes[1] IN
         [tricks EXCEPT ![primary_hero.hero_name] =
             << [player |-> player_name,
                 matches |-> primary_hero.matches,
                 winrate |-> primary_hero.winrate,
                 dominance |-> metrics.primary_hero_dominance,
                 diversity |-> metrics.diversity_score] >>]
    ELSE tricks

\* lines 194-202
TagOneTrick(tricks, player_name, top_heroes, metrics) ==
    IF metrics.is_one_trick
    THEN LET primary_hero == top_heroes[1] IN
         [tricks EXCEPT ![primary_hero.hero_name] =
             Append(@, [player |-> player_name,
                        matches |-> primary_hero.matches,
                        winrate |-> primary_hero.winrate,
                        dominance |-> metrics.primary_hero_dominance,
                        diversity |-> metrics.diversity_score])]
    ELSE tricks

\* lines 206-216: the body of 'for hero in top_heroes'
TrackHero(acc, player_name, hero) ==
    LET hero_name == hero.hero_name
        matches == hero.matches
        winrate == hero.winrate
    IN  [acc EXCEPT
            !.hero_usage[hero_name] = IF MeetsCommon(hero) THEN @ + 1 ELSE @,
            !.good_players[hero_name] =
                IF MeetsGoodPlayer(hero)
                THEN Append(@, [player |-> player_name, matches |-> matches,
                                winrate |-> winrate])
                ELSE @]

RECURSIVE TrackHeroes(_, _, _)
TrackHeroes(acc, player_name, top_heroes) ==
    IF top_heroes = <<>> THEN acc
    ELSE TrackHeroes(TrackHero(acc, player_name, Head(top_heroes)),
                     player_name, Tail(top_heroes))

\* variant of ProcessPlayerData: a hero already held in good_players is not
\* tagged as a one-trick
ProcessPlayerDataFirstTagWins(acc, player_name, player_data) ==
    IF ~player_data.present THEN acc
    ELSE LET top_heroes == get_top_heroes(player_data) IN
         IF top_heroes = <<>> THEN acc
         ELSE LET metrics == calculate_hero_pool_metrics(top_heroes)
                  acc1 == [acc EXCEPT
                      !.player_top_heroes =
                          Append(@, [player |-> player_name, top_heroes |-> top_heroes]),
                      !.player_metrics =
                          Append(@, [player |-> player_name, metrics |-> metrics]),
                      !.one_tricks =
                          IF acc.good_players[top_heroes[1].hero_name] # <<>> THEN @
                          ELSE TagOneTrick(@, player_name, top_heroes, metrics)]
              IN  TrackHeroes(acc1, player_name, top_heroes)

\* lines 180-216: the body of 'for player_name, player_data in players_data.items()'
ProcessPlayerData(acc, player_name, player_data) ==
    IF ~player_data.present THEN acc
    ELSE LET top_heroes == get_top_heroes(player_data) IN
         IF top_heroes = <<>> THEN acc
         ELSE LET metrics == calculate_hero_pool_metrics(top_heroes)
                  acc1 == [acc EXCEPT
                      !.player_top_heroes =
                          Append(@, [player |-> player_name, top_heroes |-> top_heroes]),
                      !.player_metrics =
                          Append(@, [player |-> player_name, metrics |-> metrics]),
                      !.one_tricks = TagOneTrick(@, player_name, top_heroes, metrics)]
              IN  TrackHeroes(acc1, player_name, top_heroes)

----------------------------------------------------------------------------
(* get_common_hero_players and compile_ban_recommendations *)

RECURSIVE Flatten(_)
Flatten(ss) == IF ss = <<>> THEN <<>> ELSE Head(ss) \o Flatten(Tail(ss))

RECURSIVE SelectHero(_, _, _)
SelectHero(player, top_heroes, hero) ==
    IF top_heroes = <<>> THEN <<>>
    ELSE (IF Head(top_heroes).hero_name = hero
          THEN << [player |-> player,
                   matches |-> Head(top_heroes).matches,
                   winrate |-> Format2f(Head(top_heroes).winrate)] >>
          ELSE <<>>)
         \o SelectHero(player, Tail(top_heroes), hero)

get_common_hero_players(hero, top_by_player) ==
    Flatten([i \in 1..Len(top_by_player) |->
                SelectHero(top_by_player[i].player, top_by_player[i].top_heroes, hero)])

\* lines 250-256
OneTrickLines(hero, tricks) ==
    [i \in 1..Len(tricks[hero]) |->
        [category |-> "one_trick", hero |-> hero,
         player |-> tricks[hero][i].player,
         matches |-> tricks[hero][i].matches,
         winrate |-> Format2f(tricks[hero][i].winrate),
         dominance |-> FormatDominance(tricks[hero][i].dominance)]]

\* lines 258-262
GoodPlayerLines(hero, good) ==
    [i \in 1..Len(good[hero]) |->
        [category |-> "good_player", hero |-> hero,
         player |-> good[hero][i].player,
         matches |-> good[hero][i].matches,
         winrate |-> Format2f(good[hero][i].winrate)]]

\* variant of CommonHeroLines: one line per listed player instead of one joined line
CommonHeroLinesPerPlayer(hero, top_by_player) ==
    LET common_players == get_common_hero_players(hero, top_by_player) IN
    [k \in 1..Len(common_players) |->
        [category |-> "common", hero |-> hero, common_players |-> <<common_players[k]>>]]

\* lines 265-269
CommonHeroLines(hero, top_by_player) ==
    LET common_players == get_common_hero_players(hero, top_by_player) IN
    IF common_players # <<>>
    THEN << [category |-> "common", hero |-> hero, common_players |-> common_players] >>
    ELSE <<>>

\* variant of Branches: three independent 'if' instead of if/elif/elif
BranchesNoElif(hero, tricks, good, usage) ==
    (IF tricks[hero] # <<>> THEN {"one_trick"} ELSE {})
        \cup (IF good[hero] # <<>> THEN {"good_player"} ELSE {})
        \cup (IF usage[hero] > 1 THEN {"common"} ELSE {})

\* lines 250, 258, 264: the branch of the if/elif/elif chain taken for a hero
Branches(hero, tricks, good, usage) ==
    IF tricks[hero] # <<>> THEN {"one_trick"}
    ELSE IF good[hero] # <<>> THEN {"good_player"}
    ELSE IF usage[hero] > 1 THEN {"common"}
    ELSE {}

\* variant of SortedBans: the good-player lines put first
SortedBansGoodFirst(one_trick_bans, good_player_bans, common_hero_bans) ==
    good_player_bans \o one_trick_bans \o common_hero_bans

\* line 272
SortedBans(one_trick_bans, good_player_bans, common_hero_bans) ==
    one_trick_bans \o good_player_bans \o common_hero_bans

\* candidates: ban_candidates in the order 'for hero in ban_candidates' visits it
compile_ban_recommendations(candidates, tricks, good, usage, top_by_player) ==
    LET taken(i) == Branches(candidates[i], tricks, good, usage)
        one_trick_bans == Flatten([i \in 1..Len(candidates) |->
            IF "one_trick" \in taken(i) THEN OneTrickLines(candidates[i], tricks) ELSE <<>>])
        good_player_bans == Flatten([i \in 1..Len(candidates) |->
            IF "good_player" \in taken(i) THEN GoodPlayerLines(candidates[i], good) ELSE <<>>])
        common_hero_bans == Flatten([i \in 1..Len(candidates) |->
            IF "common" \in taken(i) THEN CommonHeroLines(candidates[i], top_by_player)
            ELSE <<>>])
    IN  SortedBans(one_trick_bans, good_player_bans, common_hero_bans)

\* lines 219-223
\* variant of BanCandidates: the common heroes are left out
BanCandidatesNoCommon(acc) ==
    LET one_trick_set == {h \in HeroNames : acc.one_tricks[h] # <<>>}
        good_player_set == {h \in HeroNames : acc.good_players[h] # <<>>}
    IN  one_trick_set \cup good_player_set

BanCandidates(acc) ==
    LET one_trick_set == {h \in HeroNames : acc.one_tricks[h] # <<>>}
        good_player_set == {h \in HeroNames : acc.good_players[h] # <<>>}
        common_hero_set == {h \in HeroNames : acc.hero_usage[h] > 1}
    IN  one_trick_set \cup good_player_set \cup common_hero_set

\* the orders in which a Python set of strings may be iterated (hash order)
IterationOrders(S) ==
    {f \in [1..Cardinality(S) -> S] : \A i, j \in 1..Cardinality(S) : f[i] = f[j] => i = j}

----------------------------------------------------------------------------
(* The batches explored: up to MaxPlayers players, each mapped to one of   *)
(* PlayerDataChoices.  Matches and wins are chosen so that every threshold *)
(* of the classifier is met by some record and missed by another.          *)

MaxPlayers == 3

PlayerNames == <<"P1", "P2", "P3", "P4", "P5", "P6">>

PlayerDataChoices ==
    { NoPlayerData,
      PlayerInfoResponse(<<>>),
      \* nothing ranked: empty top-hero list
      PlayerInfoResponse(<< HeroStats("X", Ranked(0, 0)), HeroStats("Y", NoRanked) >>),
      \* one-trick on X (dominance 8/9, decay 8), X also at 70% over 80 matches
      PlayerInfoResponse(<< HeroStats("Y", Ranked(10, 5)), HeroStats("X", Ranked(80, 56)) >>),
      \* one-trick on X at 50%: neither a good player nor a common record
      PlayerInfoResponse(<< HeroStats("X", Ranked(80, 40)), HeroStats("Y", Ranked(10, 5)) >>),
      \* one-trick on Y, X above the common threshold only
      PlayerInfoResponse(<< HeroStats("Y", Ranked(80, 56)), HeroStats("X", Ranked(25, 15)) >>),
      \* X above the common threshold only (25 matches, 60%)
      PlayerInfoResponse(<< HeroStats("X", Ranked(25, 15)) >>),
      \* X a good-player record (30 matches, 70%), total below 50
      PlayerInfoResponse(<< HeroStats("X", Ranked(30, 21)) >>),
      \* two entries of the dict carrying the same hero_name
      PlayerInfoResponse(<< HeroStats("X", Ranked(25, 15)), HeroStats("X", Ranked(25, 15)) >>),
      \* one-trick on X, a good-player record on Y, Z above the common threshold only
      PlayerInfoResponse(<< HeroStats("X", Ranked(80, 56)), HeroStats("Y", Ranked(30, 21)),
                            HeroStats("Z", Ranked(25, 15)) >>),
      \* X below every threshold
      PlayerInfoResponse(<< HeroStats("X", Ranked(10, 5)) >>),
      \* six ranked heroes: X (20 matches, 55%) is cut by top_n
      PlayerInfoResponse(<< HeroStats("U", Ranked(22, 11)), HeroStats("V", Ranked(22, 11)),
                            HeroStats("W", Ranked(22, 11)), HeroStats("Z", Ranked(22, 11)),
                            HeroStats("Y", Ranked(22, 11)), HeroStats("X", Ranked(20, 11)) >>) }

Batch(data) ==
    [i \in 1..Len(data) |-> [player_name |-> PlayerNames[i], player_data |-> data[i]]]

Acc ==
    [hero_usage |-> hero_usage,
     one_tricks |-> one_tricks,
     good_players |-> good_players,
     player_top_heroes |-> player_top_heroes,
     player_metrics |-> player_metrics]

\* lines 171-176
StartCall ==
    /\ pc = "loop"
    /\ idx = 1
    /\ hero_usage = EmptyAcc.hero_usage
    /\ one_tricks = EmptyAcc.one_tricks
    /\ good_players = EmptyAcc.good_players
    /\ player_top_heroes = EmptyAcc.player_top_heroes
    /\ player_metrics = EmptyAcc.player_metrics
    /\ bans = <<>>

\* a single call: none before, none to follow
RepeatIdle == returned = <<>> /\ pending = <<>>

\* no other invocation in progress
CallsIdle == calls = <<>> /\ frames = <<>>

\* the two functions are not called on their own
PoolIdle ==
    /\ pool_pc = "idle"
    /\ pool_input = <<>>
    /\ pool_n = 0
    /\ pool_top = <<>>
    /\ pool_metrics = <<>>

\* get_player_rank is not called
RankIdle == levels = <<>> /\ ranks = <<>>

\* no message is being handled
MsgIdle ==
    /\ msg_pc = "idle"
    /\ ban_lines = <<>>
    /\ embed = <<>>
    /\ processing_msg = <<>>
    /\ channel = <<>>

Init ==
    /\ \E n \in 0..MaxPlayers : \E data \in [1..n -> PlayerDataChoices] :
           players_data = Batch(data)
    /\ StartCall
    /\ RepeatIdle
    /\ CallsIdle
    /\ PoolIdle
    /\ RankIdle
    /\ MsgIdle

\* lines 179-216: one iteration of the loop over players_data.items()
ProcessPlayer ==
    /\ pc = "loop"
    /\ idx <= Len(players_data)
    /\ LET acc == ProcessPlayerData(Acc, players_data[idx].player_name,
                                    players_data[idx].player_data)
       IN  /\ hero_usage' = acc.hero_usage
           /\ one_tricks' = acc.one_tricks
           /\ good_players' = acc.good_players
           /\ player_top_heroes' = acc.player_top_heroes
           /\ player_metrics' = acc.player_metrics
    /\ idx' = idx + 1
    /\ UNCHANGED <<players_data, pc, bans>>
    /\ UNCHANGED auxVars

\* lines 219-225 and compile_ban_recommendations: after the loop
Compile ==
    /\ pc = "loop"
    /\ idx > Len(players_data)
    /\ \E candidates \in IterationOrders(BanCandidates(Acc)) :
           bans' = compile_ban_recommendations(candidates, one_tricks, good_players,
                                               hero_usage, player_top_heroes)
    /\ pc' = "done"
    /\ UNCHANGED <<players_data, idx, hero_usage, one_tricks, good_players,
                   player_top_heroes, player_metrics>>
    /\ UNCHANGED auxVars

Next == ProcessPlayer \/ Compile

Spec == Init /\ [][Next]_vars

----------------------------------------------------------------------------
(* A second set of batches, for the pool metrics: one player whose         *)
(* hero_stats hold up to MaxPoolHeroes heroes, in any dict order, with      *)
(* matches drawn from MatchChoices and half of them won.                   *)

MaxPoolHeroes == 5

PoolHeroNames == <<"X", "Y", "Z", "W", "V", "U">>

MatchChoices == {0, 3, 10, 19, 20, 40, 80}

InitPools ==
    /\ \E n \in 1..MaxPoolHeroes : \E ms \in [1..n -> MatchChoices] :
           players_data = Batch(<< PlayerInfoResponse(
               [k \in 1..n |-> HeroStats(PoolHeroNames[k], Ranked(ms[k], ms[k] \div 2))]) >>)
    /\ StartCall
    /\ RepeatIdle
    /\ CallsIdle
    /\ PoolIdle
    /\ RankIdle
    /\ MsgIdle

SpecPools == InitPools /\ [][Next]_vars

----------------------------------------------------------------------------
(* determine_bans called again and again by one caller: the batch A, then  *)
(* possibly another batch B, then A again.  Every call runs lines 171-176  *)
(* on entry.                                                               *)

MaxRepeatPlayers == 2

RepeatChoices ==
    { NoPlayerData,
      PlayerInfoResponse(<< HeroStats("Y", Ranked(10, 5)), HeroStats("X", Ranked(80, 56)) >>),
      PlayerInfoResponse(<< HeroStats("X", Ranked(25, 15)) >>),
      PlayerInfoResponse(<< HeroStats("X", Ranked(30, 21)) >>) }

RepeatBatches ==
    UNION {{Batch(data) : data \in [1..n -> RepeatChoices]} : n \in 0..MaxRepeatPlayers}

InitRepeat ==
    /\ \E A \in RepeatBatches :
           /\ players_data = A
           /\ \/ pending = <<A>>
              \/ \E B \in RepeatBatches \ {A} : pending = <<B, A>>
    /\ returned = <<>>
    /\ StartCall
    /\ CallsIdle
    /\ PoolIdle
    /\ RankIdle
    /\ MsgIdle

\* variant of CallLocals: the dictionaries of the call before are used again
CallLocalsKept == Acc

\* lines 171-176: the tracking dictionaries a call starts with
CallLocals == EmptyAcc

\* the caller takes the returned list and calls determine_bans with the next batch
CallAgain ==
    /\ pc = "done"
    /\ pending # <<>>
    /\ returned' = Append(returned, [players_data |-> players_data,
                                     candidates |-> BanCandidates(Acc),
                                     bans |-> bans])
    /\ players_data' = Head(pending)
    /\ pending' = Tail(pending)
    /\ pc' = "loop"
    /\ idx' = 1
    /\ hero_usage' = CallLocals.hero_usage
    /\ one_tricks' = CallLocals.one_tricks
    /\ good_players' = CallLocals.good_players
    /\ player_top_heroes' = CallLocals.player_top_heroes
    /\ player_metrics' = CallLocals.player_metrics
    /\ bans' = <<>>
    /\ UNCHANGED <<callVars, poolVars, rankVars, msgVars>>

NextRepeat == ProcessPlayer \/ Compile \/ CallAgain

SpecRepeat == InitRepeat /\ [][NextRepeat]_vars

----------------------------------------------------------------------------
(* get_top_heroes called on its own with a hero_stats mapping and a top_n, *)
(* and calculate_hero_pool_metrics called with the list it returned.       *)

MaxTopHeroes == 4

MaxTopN == 3

RankedChoices == {NoRanked, Ranked(0, 0), Ranked(3, 1), Ranked(10, 5), Ranked(20, 12)}

InitTop ==
    /\ \E k \in 0..MaxTopHeroes : \E rs \in [1..k -> RankedChoices] :
           pool_input = PlayerInfoResponse([i \in 1..k |-> HeroStats(PoolHeroNames[i], rs[i])])
    /\ pool_n \in 1..MaxTopN
    /\ pool_pc = "get_top_heroes"
    /\ pool_top = <<>>
    /\ pool_metrics = <<>>
    /\ players_data = <<>>
    /\ StartCall
    /\ RepeatIdle
    /\ CallsIdle
    /\ RankIdle
    /\ MsgIdle

GetTopHeroes ==
    /\ pool_pc = "get_top_heroes"
    /\ pool_top' = TopHeroes(pool_input, pool_n)
    /\ pool_pc' = "calculate_hero_pool_metrics"
    /\ UNCHANGED <<pool_input, pool_n, pool_metrics>>
    /\ UNCHANGED <<coreVars, repeatVars, callVars, rankVars, msgVars>>

CalculateHeroPoolMetrics ==
    /\ pool_pc = "calculate_hero_pool_metrics"
    /\ pool_metrics' = calculate_hero_pool_metrics(pool_top)
    /\ pool_pc' = "done"
    /\ UNCHANGED <<pool_input, pool_n, pool_top>>
    /\ UNCHANGED <<coreVars, repeatVars, callVars, rankVars, msgVars>>

NextTop == GetTopHeroes \/ CalculateHeroPoolMetrics

SpecTop == InitTop /\ [][NextTop]_vars

----------------------------------------------------------------------------
(* get_player_rank, called once per player with the player's rank level.   *)

None == <<>>

\* lines 315-325; range(a, b) is a..b-1
rank_tiers ==
    << [rank |-> "Bronze",        levels |-> 0..3],
       [rank |-> "Silver",        levels |-> 4..6],
       [rank |-> "Gold",          levels |-> 7..9],
       [rank |-> "Platinum",      levels |-> 10..12],
       [rank |-> "Diamond",       levels |-> 13..15],
       [rank |-> "Grandmaster",   levels |-> 16..18],
       [rank |-> "Celestial",     levels |-> 19..21],
       [rank |-> "Eternity",      levels |-> {22}],
       [rank |-> "One Above All", levels |-> {23}] >>

Min(S) == CHOOSE x \in S : \A y \in S : x <= y

\* lines 328-335: the loop over rank_tiers.items(), in insertion order
RECURSIVE FindRank(_, _)
FindRank(tiers, level) ==
    IF tiers = <<>> THEN [rank |-> "Unknown", sub_tier |-> None]
    ELSE IF level \in Head(tiers).levels
         THEN IF Head(tiers).rank \in {"Eternity", "One Above All"}
              THEN [rank |-> Head(tiers).rank, sub_tier |-> None]
              ELSE [rank |-> Head(tiers).rank,
                    sub_tier |-> << 3 - (level - Min(Head(tiers).levels)) >>]
         ELSE FindRank(Tail(tiers), level)

get_player_rank(level) == FindRank(rank_tiers, level)

MaxRankPlayers == 2

LevelChoices == -3 .. 26

InitRank ==
    /\ \E n \in 1..MaxRankPlayers : levels \in [1..n -> LevelChoices]
    /\ ranks = <<>>
    /\ players_data = <<>>
    /\ StartCall
    /\ RepeatIdle
    /\ CallsIdle
    /\ PoolIdle
    /\ MsgIdle

GetPlayerRank ==
    /\ Len(ranks) < Len(levels)
    /\ ranks' = Append(ranks, get_player_rank(levels[Len(ranks) + 1]))
    /\ UNCHANGED levels
    /\ UNCHANGED <<coreVars, repeatVars, callVars, poolVars, msgVars>>

NextRank == GetPlayerRank

SpecRank == InitRank /\ [][NextRank]_vars

----------------------------------------------------------------------------
(* on_message, from the "Processing image..." message of line 34 to the    *)
(* end of the try/except of lines 36-179, for one image attachment.  A ban *)
(* line is its position in the list and its length in characters.  Every   *)
(* statement of the try block that calls out (image analysis, API, Discord) *)
(* either completes or raises.                                             *)

\* the 1000 of lines 146 and 169
FieldLimit == 1000

\* the 10 of lines 170-171
ChunkSize == 10

MaxBans == 12

LineLengths == {100, 1000}

RECURSIVE SumLengths(_)
SumLengths(lines) ==
    IF lines = <<>> THEN 0 ELSE Head(lines).length + SumLengths(Tail(lines))

\* len("\n".join(lines))
JoinedLength(lines) ==
    IF lines = <<>> THEN 0 ELSE SumLengths(lines) + (Len(lines) - 1)

\* lines 144-148: the loop that fills ban_text, left by break
RECURSIVE BanText(_, _)
BanText(ban_text, rest) ==
    IF rest = <<>> THEN ban_text
    ELSE IF Len(ban_text) + Head(rest).length > FieldLimit
         THEN ban_text
         ELSE BanText(Append(ban_text, Head(rest)), Tail(rest))

\* len("No ban recommendations")
NoBanRecommendationsLength == 22

\* lines 143-155: the embed with the "Recommended Bans" field, if bans is not empty
AddBanField(bans_list) ==
    IF bans_list = <<>> THEN [ban_field |-> <<>>]
    ELSE LET ban_text == BanText(<<>>, bans_list) IN
         [ban_field |-> << [lines |-> ban_text,
                            length |-> IF ban_text # <<>>
                                       THEN JoinedLength(ban_text)
                                       ELSE NoBanRecommendationsLength] >>]

\* lines 170-171: bans[i:i + 10] for i in range(0, len(bans), 10)
Chunks(bans_list) ==
    [c \in 1..((Len(bans_list) + ChunkSize - 1) \div ChunkSize) |->
        SubSeq(bans_list, ChunkSize * (c - 1) + 1,
               IF ChunkSize * c < Len(bans_list) THEN ChunkSize * c ELSE Len(bans_list))]

\* lines 169-176: the chunks sent as "Additional Ban Recommendations"
FollowUps(bans_list) ==
    IF bans_list # <<>> /\ JoinedLength(bans_list) > FieldLimit
    THEN Tail(Chunks(bans_list))
    ELSE <<>>

\* the follow-up messages already in the channel
FollowUpsSent == Len(SelectSeq(channel, LAMBDA m : m.kind = "text"))

InitMessage ==
    /\ \E n \in 0..MaxBans : \E ls \in [1..n -> LineLengths] :
           ban_lines = [i \in 1..n |-> [n |-> i, length |-> ls[i]]]
    /\ msg_pc = "get_usernames"
    /\ embed = <<>>
    /\ processing_msg = [exists |-> TRUE, content |-> "Processing image...",
                         edited_after_delete |-> FALSE]
    /\ channel = <<>>
    /\ players_data = <<>>
    /\ StartCall
    /\ RepeatIdle
    /\ CallsIdle
    /\ PoolIdle
    /\ RankIdle

OutsideMessage == <<coreVars, repeatVars, callVars, poolVars, rankVars>>

\* lines 38-39
GetUsernames ==
    /\ msg_pc = "get_usernames"
    /\ msg_pc' = "edit_detected"
    /\ UNCHANGED <<ban_lines, embed, processing_msg, channel, OutsideMessage>>

\* line 40
EditDetected ==
    /\ msg_pc = "edit_detected"
    /\ processing_msg' = [processing_msg EXCEPT !.content = "Detected players: ..."]
    /\ msg_pc' = "fetch"
    /\ UNCHANGED <<ban_lines, embed, channel, OutsideMessage>>

\* lines 43-46
FetchPlayersData ==
    /\ msg_pc = "fetch"
    /\ msg_pc' = "build_embed"
    /\ UNCHANGED <<ban_lines, embed, processing_msg, channel, OutsideMessage>>

\* lines 101-155: the player fields, determine_bans, the ban field
BuildEmbed ==
    /\ msg_pc = "build_embed"
    /\ embed' = AddBanField(ban_lines)
    /\ msg_pc' = "delete"
    /\ UNCHANGED <<ban_lines, processing_msg, channel, OutsideMessage>>

\* line 165
DeleteProcessingMsg ==
    /\ msg_pc = "delete"
    /\ processing_msg' = [processing_msg EXCEPT !.exists = FALSE]
    /\ msg_pc' = "send_embed"
    /\ UNCHANGED <<ban_lines, embed, channel, OutsideMessage>>

\* line 166
SendEmbed ==
    /\ msg_pc = "send_embed"
    /\ channel' = Append(channel, [kind |-> "embed", lines |-> IF embed.ban_field = <<>>
                                                               THEN <<>>
                                                               ELSE embed.ban_field[1].lines])
    /\ msg_pc' = "follow_ups"
    /\ UNCHANGED <<ban_lines, embed, processing_msg, OutsideMessage>>

\* line 176, once per chunk of chunks[1:]
SendFollowUp ==
    /\ msg_pc = "follow_ups"
    /\ FollowUpsSent < Len(FollowUps(ban_lines))
    /\ channel' = Append(channel, [kind |-> "text",
                                   lines |-> FollowUps(ban_lines)[FollowUpsSent + 1]])
    /\ UNCHANGED <<msg_pc, ban_lines, embed, processing_msg, OutsideMessage>>

\* the try block is left at its end
EndTry ==
    /\ msg_pc = "follow_ups"
    /\ FollowUpsSent = Len(FollowUps(ban_lines))
    /\ msg_pc' = "done"
    /\ UNCHANGED <<ban_lines, embed, processing_msg, channel, OutsideMessage>>

\* the statement to run next raises instead: control goes to line 178
Raise ==
    /\ \/ msg_pc \in {"get_usernames", "edit_detected", "fetch", "build_embed",
                       "delete", "send_embed"}
       \/ msg_pc = "follow_ups" /\ FollowUpsSent < Len(FollowUps(ban_lines))
    /\ msg_pc' = "except"
    /\ UNCHANGED <<ban_lines, embed, processing_msg, channel, OutsideMessage>>

\* lines 178-179: the edit shows the error text if the message still exists,
\* and fails with NotFound if it was deleted
Except ==
    /\ msg_pc = "except"
    /\ processing_msg' =
           IF processing_msg.exists
           THEN [processing_msg EXCEPT !.content = "An error occurred: ..."]
           ELSE [processing_msg EXCEPT !.edited_after_delete = TRUE]
    /\ msg_pc' = "done"
    /\ UNCHANGED <<ban_lines, embed, channel, OutsideMessage>>

NextMessage ==
    \/ GetUsernames
    \/ EditDetected
    \/ FetchPlayersData
    \/ BuildEmbed
    \/ DeleteProcessingMsg
    \/ SendEmbed
    \/ SendFollowUp
    \/ EndTry
    \/ Raise
    \/ Except

SpecMessage == InitMessage /\ [][NextMessage]_vars

----------------------------------------------------------------------------
(* Two invocations of determine_bans in progress at once, on different     *)
(* batches, their steps interleaved in any order.  A step is one iteration *)
(* of the loop of lines 179-216, or lines 219-225.  Each invocation reads  *)
(* and writes the dictionaries of its own frame.                           *)

CallIds == 1..2

\* variant of FrameOf: one set of dictionaries for both invocations
FrameOfShared(c) == 1

\* lines 172-176: the dictionaries are locals, created in the invocation's frame
FrameOf(c) == c

InitCalls ==
    /\ \E A \in RepeatBatches : \E B \in RepeatBatches \ {A} :
           calls = << [players_data |-> A, pc |-> "loop", idx |-> 1, bans |-> <<>>],
                      [players_data |-> B, pc |-> "loop", idx |-> 1, bans |-> <<>>] >>
    /\ frames = << EmptyAcc, EmptyAcc >>
    /\ players_data = <<>>
    /\ StartCall
    /\ RepeatIdle
    /\ PoolIdle
    /\ RankIdle
    /\ MsgIdle

CallProcessPlayer(c) ==
    /\ calls[c].pc = "loop"
    /\ calls[c].idx <= Len(calls[c].players_data)
    /\ frames' = [frames EXCEPT ![FrameOf(c)] =
                      ProcessPlayerData(frames[FrameOf(c)],
                                        calls[c].players_data[calls[c].idx].player_name,
                                        calls[c].players_data[calls[c].idx].player_data)]
    /\ calls' = [calls EXCEPT ![c].idx = @ + 1]
    /\ UNCHANGED <<coreVars, repeatVars, poolVars, rankVars, msgVars>>

CallCompile(c) ==
    /\ calls[c].pc = "loop"
    /\ calls[c].idx > Len(calls[c].players_data)
    /\ \E candidates \in IterationOrders(BanCandidates(frames[FrameOf(c)])) :
           calls' = [calls EXCEPT
                        ![c].bans = compile_ban_recommendations(
                                        candidates,
                                        frames[FrameOf(c)].one_tricks,
                                        frames[FrameOf(c)].good_players,
                                        frames[FrameOf(c)].hero_usage,
                                        frames[FrameOf(c)].player_top_heroes),
                        ![c].pc = "done"]
    /\ UNCHANGED <<coreVars, repeatVars, frames, poolVars, rankVars, msgVars>>

NextCalls == \E c \in CallIds : CallProcessPlayer(c) \/ CallCompile(c)

SpecCalls == InitCalls /\ [][NextCalls]_vars

----------------------------------------------------------------------------
(* determine_bans as a function of the batch and of the order in which the *)
(* candidate set is iterated: the loop above run to its end.               *)

RECURSIVE RunLoop(_, _)
RunLoop(acc, batch) ==
    IF batch = <<>> THEN acc
    ELSE RunLoop(ProcessPlayerData(acc, Head(batch).player_name, Head(batch).player_data),
                 Tail(batch))

determine_bans(batch, candidates) ==
    LET acc == RunLoop(EmptyAcc, batch) IN
    compile_ban_recommendations(candidates, acc.one_tricks, acc.good_players,
                                acc.hero_usage, acc.player_top_heroes)

\* every list determine_bans may return for a batch
Results(batch) ==
    LET acc == RunLoop(EmptyAcc, batch) IN
    {compile_ban_recommendations(candidates, acc.one_tricks, acc.good_players,
                                 acc.hero_usage, acc.player_top_heroes) :
        candidates \in IterationOrders(BanCandidates(acc))}

----------------------------------------------------------------------------
(* What the batch itself says about a hero, read from players_data.        *)

Players == DOMAIN players_data

Name(i) == players_data[i].player_name

\* the top-hero list of every player of the batch, in batch order
RECURSIVE TopsOf(_)
TopsOf(batch) ==
    IF batch = <<>> THEN <<>>
    ELSE <<get_top_heroes(Head(batch).player_data)>> \o TopsOf(Tail(batch))

Tops == TopsOf(players_data)

\* record r has at least m matches and a winrate of at least pct percent
AtLeast(r, pct, m) == r.matches >= m /\ r.winrate.num >= pct * r.winrate.den

\* the players whose pool is a one-trick pool with primary hero h
OneTrickPlayers(t, h) ==
    {i \in 1..Len(t) : /\ t[i] # <<>>
                       /\ t[i][1].hero_name = h
                       /\ calculate_hero_pool_metrics(t[i]).is_one_trick}

\* the (player, record) pairs for hero h at or above the good-player thresholds
StrongRecords(t, h) ==
    UNION {{<<i, k>> : k \in {k \in 1..Len(t[i]) :
                                 t[i][k].hero_name = h /\ AtLeast(t[i][k], 60, 30)}} :
           i \in 1..Len(t)}

\* the players with a record for hero h at or above the common thresholds
CommonPlayers(t, h) ==
    {i \in 1..Len(t) : \E k \in 1..Len(t[i]) :
        t[i][k].hero_name = h /\ AtLeast(t[i][k], 55, 20)}

\* positions of the returned list holding a line of the category for the hero
LinesOf(h, category) ==
    {n \in 1..Len(bans) : bans[n].hero = h /\ bans[n].category = category}

CategoriesOf(h) == {bans[n].category : n \in {k \in 1..Len(bans) : bans[k].hero = h}}

----------------------------------------------------------------------------
\* C1: in the returned list every hero has lines of one category only, chosen
\* by one-trick > good player > common: a one-tricked hero has only one-trick
\* lines, else a hero with a good-player record has only good-player lines,
\* and a common line exists only for a hero with neither.
C1_CategoryPrecedence ==
    LET t == Tops IN
    pc = "done" =>
        \A h \in HeroNames :
            /\ Cardinality(CategoriesOf(h)) <= 1
            /\ OneTrickPlayers(t, h) # {} => CategoriesOf(h) = {"one_trick"}
            /\ (OneTrickPlayers(t, h) = {} /\ StrongRecords(t, h) # {})
                   => CategoriesOf(h) = {"good_player"}
            /\ "common" \in CategoriesOf(h)
                   => (OneTrickPlayers(t, h) = {} /\ StrongRecords(t, h) = {})

\* a hero that is one-tricked, has a good-player record and is counted twice
C1_Witness ==
    LET t == Tops IN
    /\ pc = "done"
    /\ \E h \in HeroNames :
           /\ OneTrickPlayers(t, h) # {}
           /\ StrongRecords(t, h) # {}
           /\ hero_usage[h] > 1
           /\ CategoriesOf(h) = {"one_trick"}
    /\ \E h \in HeroNames : CategoriesOf(h) = {"good_player"} /\ hero_usage[h] > 1

\* C2 (as claimed): the usage counter of a hero never exceeds the number of
\* distinct processed players holding a record for it at or above the common
\* thresholds, so a hero is a common candidate only with two such players.
C2_CounterCountsPlayers ==
    LET t == Tops IN
    \A h \in HeroNames :
        hero_usage[h] <= Cardinality({i \in CommonPlayers(t, h) : i < idx})

\* no player of the batch has two dict entries with the same hero_name
DistinctHeroNames(t) ==
    \A i \in 1..Len(t) : \A k, l \in 1..Len(t[i]) :
        t[i][k].hero_name = t[i][l].hero_name => k = l

\* C3 (as claimed): a common-hero line lists exactly the players whose record
\* for the hero is at or above the common thresholds (stated for the batches
\* in which a player holds at most one record per hero).
C3_CommonLineListsQualifying ==
    LET t == Tops IN
    (pc = "done" /\ DistinctHeroNames(t)) =>
        \A n \in 1..Len(bans) :
            bans[n].category = "common" =>
                LET listed == bans[n].common_players IN
                /\ \A k \in 1..Len(listed) :
                       listed[k].matches >= 20 /\ listed[k].winrate >= 5500
                /\ {listed[k].player : k \in 1..Len(listed)}
                       = {Name(i) : i \in CommonPlayers(t, bans[n].hero)}

\* C4: a hero rendered as a common hero has exactly one line, whatever the
\* number of players playing it, and that line names each of those players.
C4_OneCommonLine ==
    LET t == Tops IN
    pc = "done" =>
        \A h \in HeroNames :
            /\ Cardinality(LinesOf(h, "common")) <= 1
            /\ (/\ OneTrickPlayers(t, h) = {}
                /\ StrongRecords(t, h) = {}
                /\ Cardinality(CommonPlayers(t, h)) >= 2)
                   => /\ Cardinality(LinesOf(h, "common")) = 1
                      /\ \A n \in LinesOf(h, "common") : \A i \in CommonPlayers(t, h) :
                             \E k \in 1..Len(bans[n].common_players) :
                                 bans[n].common_players[k].player = Name(i)

\* two players with the same hero at 25 matches, nothing else: one line, both named
C4_Witness ==
    LET t == Tops IN
    /\ pc = "done"
    /\ Len(players_data) = 2
    /\ \E h \in HeroNames :
           /\ \A i \in Players :
                  /\ Len(t[i]) = 1
                  /\ t[i][1].hero_name = h
                  /\ t[i][1].matches = 25
           /\ Len(bans) = 1
           /\ bans[1].category = "common"
           /\ bans[1].hero = h
           /\ Len(bans[1].common_players) = 2

----------------------------------------------------------------------------
RECURSIVE SumSquares(_)
SumSquares(top_heroes) ==
    IF top_heroes = <<>> THEN 0
    ELSE Head(top_heroes).matches * Head(top_heroes).matches + SumSquares(Tail(top_heroes))

\* the four conditions on a top-hero list, in whole numbers:
\* total >= 50, m1/total > 2/5, m1/m2 > 2 (no second hero: infinite), sum(m^2)/total^2 > 1/4
EnoughMatches(top) == SumMatches(top) >= 50
Dominant(top) == 5 * top[1].matches > 2 * SumMatches(top)
SharpDecay(top) == Len(top) < 2 \/ top[1].matches > 2 * top[2].matches
Concentrated(top) == 4 * SumSquares(top) > SumMatches(top) * SumMatches(top)

\* C5: calculate_hero_pool_metrics sets is_one_trick exactly when the pool has
\* at least 50 matches, dominance above 0.40, decay above 2.0 and a sum of
\* squared play rates above 0.25, all four together; the pool 80/10 is one.
C5_OneTrickIffAllFour ==
    \A p \in 1..Len(player_metrics) :
        LET top == player_top_heroes[p].top_heroes
            is_one_trick == player_metrics[p].metrics.is_one_trick
        IN  /\ is_one_trick = (/\ EnoughMatches(top)
                               /\ Dominant(top)
                               /\ SharpDecay(top)
                               /\ Concentrated(top))
            /\ (Len(top) = 2 /\ top[1].matches = 80 /\ top[2].matches = 10) => is_one_trick

\* the pool {X: 80, Y: 10} has been measured and is a one-trick pool
C5_Witness ==
    \E p \in 1..Len(player_metrics) :
        LET top == player_top_heroes[p].top_heroes IN
        /\ Len(top) = 2 /\ top[1].matches = 80 /\ top[2].matches = 10
        /\ player_metrics[p].metrics.is_one_trick

\* pools that miss exactly one condition (the concentration is implied by the
\* dominance for a list of at most five heroes)
C5_MissesOnlyMatches ==
    \E p \in 1..Len(player_metrics) :
        LET top == player_top_heroes[p].top_heroes IN
        ~EnoughMatches(top) /\ Dominant(top) /\ SharpDecay(top) /\ Concentrated(top)
C5_MissesOnlyDominance ==
    \E p \in 1..Len(player_metrics) :
        LET top == player_top_heroes[p].top_heroes IN
        EnoughMatches(top) /\ ~Dominant(top) /\ SharpDecay(top) /\ Concentrated(top)
C5_MissesOnlyDecay ==
    \E p \in 1..Len(player_metrics) :
        LET top == player_top_heroes[p].top_heroes IN
        EnoughMatches(top) /\ Dominant(top) /\ ~SharpDecay(top) /\ Concentrated(top)

----------------------------------------------------------------------------
\* the lines of the returned list at the positions of S, in list order
RECURSIVE Pick(_, _)
Pick(lines, keep) ==
    IF lines = <<>> THEN <<>>
    ELSE (IF keep[1] THEN <<Head(lines)>> ELSE <<>>)
         \o Pick(Tail(lines), Tail(keep))

LinesSeq(h, category) ==
    Pick(bans, [n \in 1..Len(bans) |-> bans[n].hero = h /\ bans[n].category = category])

\* the elements of a set of naturals, ascending
RECURSIVE Ascending(_)
Ascending(S) ==
    IF S = {} THEN <<>>
    ELSE LET m == CHOOSE x \in S : \A y \in S : x <= y IN <<m>> \o Ascending(S \ {m})

\* dominance of the primary hero in tenths of a percent, as printed
PrintedDominance(top) == RoundScaled(Rat(top[1].matches, SumMatches(top)), 1000)

\* C6: for every hero the one-trick lines are, one per player and in batch
\* order, the players whose pool is a one-trick pool with that primary hero,
\* each line with that player's own matches, winrate and dominance.
C6_OneLinePerOneTrickPlayer ==
    LET t == Tops IN
    pc = "done" =>
        \A h \in HeroNames :
            LET lines == LinesSeq(h, "one_trick")
                taggers == Ascending(OneTrickPlayers(t, h))
            IN  /\ Len(lines) = Cardinality(OneTrickPlayers(t, h))
                /\ \A k \in 1..Len(lines) :
                       LET primary == t[taggers[k]][1] IN
                       /\ lines[k].player = Name(taggers[k])
                       /\ lines[k].matches = primary.matches
                       /\ lines[k].winrate = Format2f(primary.winrate)
                       /\ lines[k].dominance = PrintedDominance(t[taggers[k]])

\* two players one-trick the same hero with different records: two lines
C6_Witness ==
    LET t == Tops IN
    /\ pc = "done"
    /\ \E h \in HeroNames :
           /\ Cardinality(OneTrickPlayers(t, h)) >= 2
           /\ Len(LinesSeq(h, "one_trick")) >= 2
           /\ LinesSeq(h, "one_trick")[1].winrate # LinesSeq(h, "one_trick")[2].winrate

\* C7: for every hero no player one-tricks, the good-player lines are, one per
\* record and in batch order, the records with winrate >= 60 and matches >= 30,
\* each with its own matches and winrate; a player with fewer than 50 matches
\* in total and 30 of them on one hero at 60% or more gets a good-player line
\* for it and no one-trick line.
C7_OneLinePerStrongRecord ==
    LET t == Tops IN
    pc = "done" =>
        /\ \A h \in HeroNames :
               OneTrickPlayers(t, h) = {} =>
                   LET lines == LinesSeq(h, "good_player")
                       recs == [i \in Players |->
                                   Ascending({k \in 1..Len(t[i]) : <<i, k>> \in StrongRecords(t, h)})]
                       flat == Flatten([i \in Players |->
                                   [k \in 1..Len(recs[i]) |-> <<i, recs[i][k]>>]])
                   IN  /\ Len(lines) = Cardinality(StrongRecords(t, h))
                       /\ Len(flat) = Len(lines)
                       /\ \A n \in 1..Len(lines) :
                              LET r == t[flat[n][1]][flat[n][2]] IN
                              /\ lines[n].player = Name(flat[n][1])
                              /\ lines[n].matches = r.matches
                              /\ lines[n].winrate = Format2f(r.winrate)
                              /\ r.matches >= 30 /\ lines[n].winrate >= 6000
        /\ \A i \in Players :
               (/\ Len(t[i]) = 1
                /\ t[i][1].matches = 30
                /\ AtLeast(t[i][1], 60, 30))
                   => /\ i \notin OneTrickPlayers(t, t[i][1].hero_name)
                      /\ \A n \in 1..Len(bans) :
                             bans[n].category = "one_trick" => bans[n].player # Name(i)
                      /\ OneTrickPlayers(t, t[i][1].hero_name) = {}
                             => \E n \in 1..Len(bans) :
                                    /\ bans[n].category = "good_player"
                                    /\ bans[n].player = Name(i)
                                    /\ bans[n].hero = t[i][1].hero_name

\* a lone player with 30 matches at 70% on one hero: one good-player line
C7_Witness ==
    LET t == Tops IN
    /\ pc = "done"
    /\ \E i \in Players :
           /\ Len(t[i]) = 1
           /\ t[i][1].matches = 30
           /\ calculate_hero_pool_metrics(t[i]).primary_hero_dominance = Rat(30, 30)
           /\ \E n \in 1..Len(bans) :
                  bans[n].category = "good_player" /\ bans[n].player = Name(i)
    /\ \E h \in HeroNames : Cardinality(StrongRecords(t, h)) >= 2 /\ OneTrickPlayers(t, h) = {}

CategoryRank(category) ==
    IF category = "one_trick" THEN 1 ELSE IF category = "good_player" THEN 2 ELSE 3

\* C8: in the returned list every one-trick line precedes every good-player
\* line and every good-player line precedes every common-hero line.
C8_CategoryOrder ==
    pc = "done" =>
        \A m, n \in 1..Len(bans) :
            m < n => CategoryRank(bans[m].category) <= CategoryRank(bans[n].category)

\* a returned list holding lines of all three categories
C8_Witness ==
    /\ pc = "done"
    /\ {bans[n].category : n \in 1..Len(bans)} = {"one_trick", "good_player", "common"}

----------------------------------------------------------------------------
\* player i maps to None, or no hero of its statistics has a ranked match
NoData(i) ==
    LET player_data == players_data[i].player_data IN
    \/ ~player_data.present
    \/ \A k \in 1..Len(player_data.hero_stats) :
           \/ ~player_data.hero_stats[k].ranked.present
           \/ player_data.hero_stats[k].ranked.matches = 0

\* the batch with its i-th item removed
Without(batch, i) ==
    [k \in 1..(Len(batch) - 1) |-> IF k < i THEN batch[k] ELSE batch[k + 1]]

\* C9: a player mapped to None or without a ranked match contributes nothing:
\* the returned list is one determine_bans returns for the batch without that
\* player; an empty batch, or one of such players only, returns the empty list.
C9_NoDataContributesNothing ==
    pc = "done" =>
        /\ \A i \in Players : NoData(i) => bans \in Results(Without(players_data, i))
        /\ (\A i \in Players : NoData(i)) => bans = <<>>

\* a batch with a None player and a player without ranked matches next to
\* players that yield a common-hero line
C9_Witness ==
    /\ pc = "done"
    /\ \E i, j \in Players :
           /\ ~players_data[i].player_data.present
           /\ players_data[j].player_data.present
           /\ players_data[j].player_data.hero_stats # <<>>
           /\ NoData(j)
    /\ \E n \in 1..Len(bans) : bans[n].category = "common"

\* the batch whose items are those of players_data in the order perm
Permuted(perm) == [k \in Players |-> players_data[perm[k]]]

\* the (hero, category) pairs of a list of lines
CategoryMap(lines) == {<<lines[n].hero, lines[n].category>> : n \in 1..Len(lines)}

\* C10: for every reordering of the batch, determine_bans has the same set
\* of candidate heroes and renders each candidate in the same category.
C10_OrderIndependent ==
    pc = "done" =>
        \A perm \in IterationOrders(Players) :
            /\ BanCandidates(RunLoop(EmptyAcc, Permuted(perm))) = BanCandidates(Acc)
            /\ \A r \in Results(Permuted(perm)) : CategoryMap(r) = CategoryMap(bans)

\* a batch with two categories in its result, one of whose reorderings
\* returns other lists than the one returned
C10_Witness ==
    /\ pc = "done"
    /\ Cardinality({bans[n].category : n \in 1..Len(bans)}) >= 2
    /\ \E perm \in IterationOrders(Players) : bans \notin Results(Permuted(perm))

----------------------------------------------------------------------------
\* C11: a call of determine_bans on a batch it was called with before has the
\* same candidate set and renders every candidate in the same category as
\* that earlier call, whatever was called in between; and a call starts with
\* empty tracking dictionaries: nothing of an earlier call is visible to it.
C11_RepeatableNoCarryOver ==
    /\ (pc = "loop" /\ idx = 1) => Acc = EmptyAcc
    /\ pc = "done" =>
           \A k \in 1..Len(returned) :
               returned[k].players_data = players_data =>
                   /\ returned[k].candidates = BanCandidates(Acc)
                   /\ CategoryMap(returned[k].bans) = CategoryMap(bans)

\* the second call on a batch is done, after a call on another batch, and
\* both batches yield lines
C11_Witness ==
    /\ pc = "done"
    /\ Len(returned) = 2
    /\ returned[1].players_data = players_data
    /\ returned[2].players_data # players_data
    /\ returned[2].bans # <<>>
    /\ bans # <<>>
    /\ returned[1].bans = bans

----------------------------------------------------------------------------
\* C12: of two invocations of determine_bans on different batches whose steps
\* interleave in any order, each returns a list it would return when run
\* alone on its batch, and its frame holds nothing of the other's batch.
C12_InterleavedAsAlone ==
    \A c \in CallIds :
        calls[c].pc = "done" =>
            /\ calls[c].bans \in Results(calls[c].players_data)
            /\ frames[c] = RunLoop(EmptyAcc, calls[c].players_data)

\* the first invocation has returned lines while the second, whose batch
\* shares hero X with the first's, is in the middle of its loop
C12_Witness ==
    /\ calls[1].pc = "done"
    /\ calls[1].bans # <<>>
    /\ calls[2].pc = "loop"
    /\ calls[2].idx = 2
    /\ Len(calls[2].players_data) = 2
    /\ frames[1].hero_usage["X"] > 0
    /\ frames[2].hero_usage["X"] > 0

----------------------------------------------------------------------------
(* What the hero_stats mapping given to get_top_heroes says.               *)

PoolStats == pool_input.hero_stats

\* the heroes of the mapping with ranked data and a positive match count
PositiveHeroes ==
    {i \in DOMAIN PoolStats : PoolStats[i].ranked.present /\ PoolStats[i].ranked.matches > 0}

\* where the mapping holds the hero of a returned record
PositionOf(hero_name) == CHOOSE i \in DOMAIN PoolStats : PoolStats[i].hero_name = hero_name

ReturnedNames == {pool_top[i].hero_name : i \in DOMAIN pool_top}

\* C13: get_top_heroes returns at most n records, each with matches > 0, in
\* non-increasing order of matches, heroes with equal matches in the order of
\* the mapping, and no hero left out has a positive match count strictly
\* above that of a returned hero.
C13_TopHeroesSortedPrefix ==
    pool_pc # "get_top_heroes" =>
        /\ Len(pool_top) <= pool_n
        /\ \A i \in DOMAIN pool_top :
               /\ pool_top[i].matches > 0
               /\ pool_top[i].hero_name \in {PoolStats[k].hero_name : k \in PositiveHeroes}
               /\ pool_top[i].matches = PoolStats[PositionOf(pool_top[i].hero_name)].ranked.matches
        /\ \A i, j \in DOMAIN pool_top :
               i < j =>
                   /\ pool_top[i].matches >= pool_top[j].matches
                   /\ pool_top[i].matches = pool_top[j].matches =>
                          PositionOf(pool_top[i].hero_name) < PositionOf(pool_top[j].hero_name)
        /\ \A k \in PositiveHeroes :
               PoolStats[k].hero_name \notin ReturnedNames =>
                   \A i \in DOMAIN pool_top : PoolStats[k].ranked.matches <= pool_top[i].matches

\* two heroes returned with equal matches, a third with as many matches left
\* out by the slice, a hero with zero matches and one without ranked data
C13_Witness ==
    /\ pool_pc # "get_top_heroes"
    /\ pool_n = 2
    /\ Len(pool_top) = 2
    /\ pool_top[1].matches = pool_top[2].matches
    /\ \E k \in PositiveHeroes :
           /\ PoolStats[k].hero_name \notin ReturnedNames
           /\ PoolStats[k].ranked.matches = pool_top[2].matches
    /\ \E k \in DOMAIN PoolStats : ~PoolStats[k].ranked.present

\* C14: get_top_heroes followed by calculate_hero_pool_metrics completes for
\* every hero_stats mapping with no division by zero: the winrate of line 150
\* is divided by a positive match count, the play rates of line 376 by a
\* positive total, the decay of line 385 by a positive play rate; and an
\* empty list, or a total of 0, gives the zero-valued metrics.
C14_NoDivisionByZero ==
    /\ pool_pc # "get_top_heroes" =>
           \A i \in DOMAIN pool_top : pool_top[i].winrate.den # 0
    /\ pool_pc = "done" =>
           IF pool_top = <<>> \/ SumMatches(pool_top) = 0
           THEN pool_metrics = ZeroMetrics
           ELSE /\ pool_metrics.total_matches > 0
                /\ pool_metrics.primary_hero_dominance.den # 0
                /\ pool_metrics.diversity_score.den # 0
                /\ pool_metrics.play_rate_decay.den = 0 => Len(pool_top) = 1

\* a mapping of heroes with zero matches or no ranked data only: the list is
\* empty and the metrics are the zero-valued ones
C14_Witness ==
    /\ pool_pc = "done"
    /\ Len(PoolStats) = 3
    /\ \E k \in DOMAIN PoolStats : PoolStats[k].ranked.present /\ PoolStats[k].ranked.matches = 0
    /\ \E k \in DOMAIN PoolStats : ~PoolStats[k].ranked.present
    /\ pool_top = <<>>
    /\ pool_metrics = ZeroMetrics

\* sum of the squared match counts of the returned records
PoolSumSquares == SumSquares(pool_top)

\* C15: for a non-empty list of k heroes the concentration index, 1 minus the
\* diversity_score, is the sum of the squared play rates, lies in [1/k, 1],
\* is 1 for a single hero and 1/k for k heroes with equal matches; the
\* diversity_score lies in [0, 1 - 1/k].
C15_ConcentrationRange ==
    (pool_pc = "done" /\ pool_top # <<>>) =>
        LET k == Len(pool_top)
            total == SumMatches(pool_top)
            d == pool_metrics.diversity_score
            hhi == Rat(d.den - d.num, d.den)
        IN  /\ d.den > 0
            /\ hhi.num * (total * total) = PoolSumSquares * hhi.den
            /\ k * hhi.num >= hhi.den
            /\ hhi.num <= hhi.den
            /\ d.num >= 0
            /\ k * d.num <= (k - 1) * d.den
            /\ k = 1 => hhi.num = hhi.den
            /\ (\A i \in DOMAIN pool_top : pool_top[i].matches = pool_top[1].matches) =>
                   k * hhi.num = hhi.den

\* three heroes with equal matches: the index is 1/3, the diversity 2/3
C15_Witness ==
    /\ pool_pc = "done"
    /\ Len(pool_top) = 3
    /\ \A i \in DOMAIN pool_top : pool_top[i].matches = 10
    /\ 3 * pool_metrics.diversity_score.num = 2 * pool_metrics.diversity_score.den

----------------------------------------------------------------------------
TieredRanks ==
    {"Bronze", "Silver", "Gold", "Platinum", "Diamond", "Grandmaster", "Celestial"}

\* the level is the lowest one of its rank
FirstLevelOfRank(level) ==
    \A below \in LevelChoices :
        below < level => get_player_rank(below).rank # get_player_rank(level).rank

\* C16: get_player_rank gives every level 0..21 a tiered rank with a sub-tier
\* in 1..3, which is 3 at the first level of the rank; 22 is Eternity and 23
\* is One Above All, both without sub-tier; any other level is Unknown
\* without sub-tier.
C16_RankAndSubTier ==
    \A i \in DOMAIN ranks :
        LET level == levels[i]
            r == ranks[i]
        IN  IF level \in 0..21
            THEN /\ r.rank \in TieredRanks
                 /\ r.sub_tier # None
                 /\ r.sub_tier[1] \in 1..3
                 /\ FirstLevelOfRank(level) => r.sub_tier[1] = 3
            ELSE IF level = 22 THEN r = [rank |-> "Eternity", sub_tier |-> None]
            ELSE IF level = 23 THEN r = [rank |-> "One Above All", sub_tier |-> None]
            ELSE r = [rank |-> "Unknown", sub_tier |-> None]

\* what does hold: the same with level 3 set aside, where the sub-tier is 0
C16_ExceptLevelThree ==
    \A i \in DOMAIN ranks :
        LET level == levels[i]
            r == ranks[i]
        IN  IF level = 3 THEN r = [rank |-> "Bronze", sub_tier |-> <<0>>]
            ELSE IF level \in 0..21
            THEN /\ r.rank \in TieredRanks
                 /\ r.sub_tier # None
                 /\ r.sub_tier[1] \in 1..3
                 /\ FirstLevelOfRank(level) => r.sub_tier[1] = 3
            ELSE IF level = 22 THEN r = [rank |-> "Eternity", sub_tier |-> None]
            ELSE IF level = 23 THEN r = [rank |-> "One Above All", sub_tier |-> None]
            ELSE r = [rank |-> "Unknown", sub_tier |-> None]

----------------------------------------------------------------------------
\* the heroes with a line in the returned list
HeroesWithLines == {bans[n].hero : n \in 1..Len(bans)}

\* C17: the heroes with at least one line in the list determine_bans returns
\* are exactly the candidates: the heroes some player one-tricks, the heroes
\* with a good-player record, and the heroes counted more than once.
C17_LinesExactlyForCandidates ==
    LET t == Tops IN
    pc = "done" =>
        /\ HeroesWithLines = BanCandidates(Acc)
        /\ HeroesWithLines = {h \in HeroNames : \/ OneTrickPlayers(t, h) # {}
                                                 \/ StrongRecords(t, h) # {}
                                                 \/ hero_usage[h] > 1}

\* one candidate of each kind and a hero of some player's top list that is none
C17_Witness ==
    LET t == Tops IN
    /\ pc = "done"
    /\ \E h \in HeroesWithLines : OneTrickPlayers(t, h) # {}
    /\ \E h \in HeroesWithLines : OneTrickPlayers(t, h) = {} /\ StrongRecords(t, h) # {}
    /\ \E h \in HeroesWithLines :
           OneTrickPlayers(t, h) = {} /\ StrongRecords(t, h) = {} /\ hero_usage[h] > 1
    /\ \E i \in 1..Len(t) : \E k \in 1..Len(t[i]) : t[i][k].hero_name \notin HeroesWithLines

----------------------------------------------------------------------------
\* the try block ran to its end
RanToEnd ==
    /\ msg_pc = "done"
    /\ processing_msg.content # "An error occurred: ..."
    /\ ~processing_msg.edited_after_delete

\* how many times ban line i was sent to the channel
RECURSIVE TimesIn(_, _)
TimesIn(i, lines) ==
    IF lines = <<>> THEN 0
    ELSE (IF Head(lines).n = i THEN 1 ELSE 0) + TimesIn(i, Tail(lines))

RECURSIVE TimesShown(_, _)
TimesShown(i, messages) ==
    IF messages = <<>> THEN 0
    ELSE TimesIn(i, Head(messages).lines) + TimesShown(i, Tail(messages))

EmbedSent == \E k \in DOMAIN channel : channel[k].kind = "embed"

\* C20 (as claimed): the handler ends either with the processing message
\* deleted and the embed sent, or with the error text in the processing
\* message, which still exists; never both, never neither, and the message is
\* never edited after its deletion.
C20_EmbedOrErrorText ==
    msg_pc = "done" =>
        LET delivered == ~processing_msg.exists /\ EmbedSent
            reported == processing_msg.exists /\ processing_msg.content = "An error occurred: ..."
        IN  /\ delivered \/ reported
            /\ ~(delivered /\ reported)
            /\ ~processing_msg.edited_after_delete

====
